---- MODULE Spec2Model ----
(***************************************************************************)
(* Model of dml_manager's criteria compiler (DMLManager._where) and of the *)
(* public DMLManager operations that hand a criteria structure to it.      *)
(*                                                                         *)
(* Python values are modelled as follows.                                  *)
(*   - an element of a criteria structure is a record                      *)
(*       [type, n, sym, field, op, value]                                  *)
(*     type is the Python type ("str", "tuple", "list"), n is len(element),*)
(*     sym is the text of a str element, and field/op/value are the three  *)
(*     items of a 3-element tuple or list;                                 *)
(*   - a triplet value is a record [shape, elems]: an int, a str (elems    *)
(*     are its characters) or a list of ints;                              *)
(*   - what a call produces is a tagged tuple: <<"raise", exception>>,     *)
(*     <<"None">>, or a SQL expression <<"prim", name, field, args>>,      *)
(*     <<"and", l, r>>, <<"or", l, r>>, <<"not", e>>.                      *)
(***************************************************************************)
EXTENDS Integers, Sequences, FiniteSets, TLC

(***************************************************************************)
(* Bounds of the checked input space.                                      *)
(***************************************************************************)
\* longest criteria structure over the core alphabet {'&', '|', ta, tb}
MaxCoreLen == 7
\* longest criteria structure over the wide alphabet (malformed elements too)
MaxWideLen == 4
MaxHelperLen == 3
MaxPureLen == 5
MaxConcLen == 5
MaxTermLen == 5
MaxNesting == 1
MaxNameLen == 2
MaxId == 5

(***************************************************************************)
(* Python values.                                                          *)
(***************************************************************************)
IntValue(i) == [shape |-> "int", elems |-> <<i>>]
StrValue(cs) == [shape |-> "str", elems |-> cs]
ListValue(is) == [shape |-> "list", elems |-> is]
\* None where an int, a str or a list is expected
NoValue == [shape |-> "none", elems |-> <<>>]

Str(s) == [type |-> "str", n |-> 1, sym |-> s, field |-> "", op |-> "", value |-> NoValue]
Tuple3(f, o, v) == [type |-> "tuple", n |-> 3, sym |-> "", field |-> f, op |-> o, value |-> v]
List3(f, o, v) == [type |-> "list", n |-> 3, sym |-> "", field |-> f, op |-> o, value |-> v]
Tuple2 == [type |-> "tuple", n |-> 2, sym |-> "", field |-> "", op |-> "", value |-> NoValue]
List2 == [type |-> "list", n |-> 2, sym |-> "", field |-> "", op |-> "", value |-> NoValue]

Raise(e) == <<"raise", e>>
None == <<"None">>
IsRaise(r) == r[1] = "raise"
IsPredicate(r) == r[1] \in {"prim", "and", "or", "not"}

(***************************************************************************)
(* _typing.py                                                              *)
(***************************************************************************)
ComparisonOperator ==
    {"=", "!=", ">", ">=", "<", "<=", "><", "in", "not in", "ilike", "not ilike", "~", "~*"}

LogicOperator == {"&", "|"}

(***************************************************************************)
(* The table collaborator: a mapped class is the set of its attribute      *)
(* names; getattr fails on every other name.                               *)
(***************************************************************************)
Commisions == {"id", "create_date", "amount", "name"}

_get_table_field(table, field) ==
    IF field \in table THEN <<"column", field>> ELSE Raise("AttributeError")

(***************************************************************************)
(* DMLManager._where                                                       *)
(***************************************************************************)
\* value[i] (0-based in the source, 1-based here) of a triplet value: the
\* exception it raises, or None
SubscriptError(value, i) ==
    IF value.shape \notin {"str", "list"} THEN Raise("TypeError")
    ELSE IF i > Len(value.elems) THEN Raise("IndexError")
    ELSE None

\* value[i] where it raises nothing
Subscript(value, i) ==
    IF value.shape = "str" THEN StrValue(<<value.elems[i]>>)
    ELSE IntValue(value.elems[i])

\* Faulty variant: the map without its last entry
_comparison_operation_without_regexp_i ==
    ("=" :> "__eq__") @@ ("!=" :> "__ne__") @@ (">" :> "__gt__") @@
    (">=" :> "__ge__") @@ ("<" :> "__lt__") @@ ("<=" :> "__le__") @@
    ("><" :> "between") @@ ("in" :> "in_") @@ ("not in" :> "not_in") @@
    ("ilike" :> "contains") @@ ("not ilike" :> "contains") @@
    ("~" :> "regexp_match")

\* Faulty variant: the primitives of 'in' and 'not in' exchanged
_comparison_operation_in_exchanged ==
    ("=" :> "__eq__") @@ ("!=" :> "__ne__") @@ (">" :> "__gt__") @@
    (">=" :> "__ge__") @@ ("<" :> "__lt__") @@ ("<=" :> "__le__") @@
    ("><" :> "between") @@ ("in" :> "not_in") @@ ("not in" :> "in_") @@
    ("ilike" :> "contains") @@ ("not ilike" :> "contains") @@
    ("~" :> "regexp_match") @@ ("~*" :> "regexp_match")

\* The operator map: its keys, each with the backend primitive its lambda
\* applies to the column.
_comparison_operation ==
    ("=" :> "__eq__") @@ ("!=" :> "__ne__") @@ (">" :> "__gt__") @@
    (">=" :> "__ge__") @@ ("<" :> "__lt__") @@ ("<=" :> "__le__") @@
    ("><" :> "between") @@ ("in" :> "in_") @@ ("not in" :> "not_in") @@
    ("ilike" :> "contains") @@ ("not ilike" :> "contains") @@
    ("~" :> "regexp_match") @@ ("~*" :> "regexp_match")

\* Faulty variant: 'not ilike' without not_
OperatorCallback_without_not(op, table, field, value) ==
    LET column == _get_table_field(table, field)
        prim == _comparison_operation[op]
    IN  IF IsRaise(column) THEN column
        ELSE CASE op = "><" ->
                    IF IsRaise(SubscriptError(value, 1)) THEN SubscriptError(value, 1)
                    ELSE IF IsRaise(SubscriptError(value, 2)) THEN SubscriptError(value, 2)
                    ELSE <<"prim", prim, field, <<Subscript(value, 1), Subscript(value, 2)>> >>
               [] op \in {"in", "not in"} ->
                    IF value.shape # "list" THEN Raise("ArgumentError")
                    ELSE <<"prim", prim, field, <<value>> >>
               [] op = "~*" -> <<"prim", prim, field, <<value, StrValue(<<"i">>)>> >>
               [] OTHER -> <<"prim", prim, field, <<value>> >>

\* _comparison_operation[op](table, field, value), op a key of the map: the
\* column is looked up first, then the arguments of the primitive are built.
\* The backend (SQLAlchemy 2.0.37, pinned in setup.py) rejects an operand of
\* in_ / not_in that is not a list with ArgumentError; the other primitives
\* take any operand.
OperatorCallback(op, table, field, value) ==
    LET column == _get_table_field(table, field)
        prim == _comparison_operation[op]
    IN  IF IsRaise(column) THEN column
        ELSE CASE op = "><" ->
                    IF IsRaise(SubscriptError(value, 1)) THEN SubscriptError(value, 1)
                    ELSE IF IsRaise(SubscriptError(value, 2)) THEN SubscriptError(value, 2)
                    ELSE <<"prim", prim, field, <<Subscript(value, 1), Subscript(value, 2)>> >>
               [] op \in {"in", "not in"} ->
                    IF value.shape # "list" THEN Raise("ArgumentError")
                    ELSE <<"prim", prim, field, <<value>> >>
               [] op = "not ilike" -> <<"not", <<"prim", prim, field, <<value>> >> >>
               [] op = "~*" -> <<"prim", prim, field, <<value, StrValue(<<"i">>)>> >>
               [] OTHER -> <<"prim", prim, field, <<value>> >>

\* Faulty variant: the two entries exchanged ('|' joins with AND, as the docstrings say)
_logic_operation_swapped(op, condition_1, condition_2) ==
    CASE op = "|" -> <<"and", condition_1, condition_2>>
      [] op = "&" -> <<"or", condition_1, condition_2>>

_logic_operation(op, condition_1, condition_2) ==
    CASE op = "|" -> <<"or", condition_1, condition_2>>
      [] op = "&" -> <<"and", condition_1, condition_2>>

_is_triplet(value) ==
    value.type = "tuple" \/ (value.type = "list" /\ value.n = 3)

\* Faulty variant: a fragment that does not unpack into three items yields None
_create_individual_query_lenient(table, fragment) ==
    IF fragment.n # 3 THEN None
    ELSE IF fragment.op \notin DOMAIN _comparison_operation THEN Raise("KeyError")
    ELSE OperatorCallback(fragment.op, table, fragment.field, fragment.value)

_create_individual_query(table, fragment) ==
    IF fragment.n # 3 THEN Raise("ValueError")
    ELSE IF fragment.op \notin DOMAIN _comparison_operation THEN Raise("KeyError")
    ELSE OperatorCallback(fragment.op, table, fragment.field, fragment.value)

\* the two conditions are evaluated by the caller, left to right, before the
\* call; an exception of the first hides the second
_merge_queries(op, condition_1, condition_2) ==
    IF IsRaise(condition_1) THEN condition_1
    ELSE IF IsRaise(condition_2) THEN condition_2
    ELSE IF op.type = "list" \/ (op.type = "tuple" /\ op.n = 3 /\ op.value.shape = "list")
         THEN Raise("TypeError")
    ELSE IF op.type # "str" \/ op.sym \notin LogicOperator THEN Raise("KeyError")
    ELSE _logic_operation(op.sym, condition_1, condition_2)

\* Faulty variant: search_criteria[i + 1:], the left triplet stays in the right span
RightSpan_from_triplet(search_criteria) ==
    SubSeq(search_criteria, 2, Len(search_criteria))

\* search_criteria[i + 2:] with i = 0: the span of the right operand when the
\* element after the marker is a triplet and the next one is not
RightSpan(search_criteria) ==
    SubSeq(search_criteria, 3, Len(search_criteria))

\* Faulty variant: search_criteria[i + 1:], the last element stays in the left span
LeftSpan_to_end(search_criteria) ==
    SubSeq(search_criteria, 2, Len(search_criteria))

\* search_criteria[i + 1: -1] with i = 0: the span of the left operand when the
\* element after the marker is not a triplet
LeftSpan(search_criteria) ==
    SubSeq(search_criteria, 2, Len(search_criteria) - 1)

\* One activation of _build_where: ret is what it returns or raises, invoked
\* the spans the recursive activations below it were called with (in call
\* order), depth the deepest nesting of activations, this one included.
RECURSIVE _build_where(_, _)
RECURSIVE _build_where_loop(_, _)

\* `for i in range(len(search_criteria))`: every path of the body returns or
\* raises, so only i = 0 runs; with no element the body never runs and the
\* function falls off its end
_build_where_loop(table, search_criteria) ==
    LET n == Len(search_criteria)
    IN  IF n = 0
        THEN [ret |-> None, invoked |-> <<>>, depth |-> 1]
        ELSE IF n < 3
        THEN [ret |-> Raise("IndexError"), invoked |-> <<>>, depth |-> 1]
        ELSE
        LET istriplet_1 == _is_triplet(search_criteria[1])
            istriplet_2 == _is_triplet(search_criteria[2])
            istriplet_3 == _is_triplet(search_criteria[3])
            op == search_criteria[1]
        IN  IF ~istriplet_1 /\ istriplet_2 /\ istriplet_3
            THEN [ret |-> _merge_queries(op,
                              _create_individual_query(table, search_criteria[2]),
                              _create_individual_query(table, search_criteria[3])),
                  invoked |-> <<>>, depth |-> 1]
            ELSE IF istriplet_2
            THEN LET condition_1 == _create_individual_query(table, search_criteria[2])
                     span == RightSpan(search_criteria)
                     rest == _build_where(table, span)
                 IN  IF IsRaise(condition_1)
                     THEN [ret |-> condition_1, invoked |-> <<>>, depth |-> 1]
                     ELSE [ret |-> _merge_queries(op, condition_1, rest.ret),
                           invoked |-> <<span>> \o rest.invoked,
                           depth |-> 1 + rest.depth]
            ELSE LET span == LeftSpan(search_criteria)
                     rest == _build_where(table, span)
                     condition_2 ==
                         IF IsRaise(rest.ret) THEN None
                         ELSE _create_individual_query(table, search_criteria[n])
                 IN  [ret |-> _merge_queries(op, rest.ret, condition_2),
                      invoked |-> <<span>> \o rest.invoked,
                      depth |-> 1 + rest.depth]

\* Faulty variant: the single-triplet case is not told apart
_build_where_no_single(table, search_criteria) ==
    _build_where_loop(table, search_criteria)

\* Faulty variant: the scan goes on to index 1 when the element at index 0 is
\* a triplet
_build_where_advancing(table, search_criteria) ==
    IF Len(search_criteria) = 1
    THEN [ret |-> _create_individual_query(table, search_criteria[1]),
          invoked |-> <<>>, depth |-> 1]
    ELSE IF Len(search_criteria) >= 2 /\ _is_triplet(search_criteria[1])
    THEN _build_where_loop(table, Tail(search_criteria))
    ELSE _build_where_loop(table, search_criteria)

_build_where(table, search_criteria) ==
    IF Len(search_criteria) = 1
    THEN [ret |-> _create_individual_query(table, search_criteria[1]),
          invoked |-> <<>>, depth |-> 1]
    ELSE _build_where_loop(table, search_criteria)

(***************************************************************************)
(* DMLManager: helpers of the public operations.                           *)
(***************************************************************************)
\* __annotations__ of the mapped class and of its base, in declaration order
instance_fields == <<"amount", "name">>
base_fields == <<"id", "create_date">>

\* list.remove(x): the list without the first occurrence of x
RECURSIVE Remove(_, _)
Remove(s, x) ==
    IF s = <<>> THEN <<>>
    ELSE IF Head(s) = x THEN Tail(s)
    ELSE <<Head(s)>> \o Remove(Tail(s), x)

\* ret: the attributes to select, or the exception of the first getattr that
\* fails; fields: the caller's list object as the call leaves it
_get_table_fields(table_instance, fields, include_id) ==
    LET id_field == <<"id">>
        all == Len(fields) = 0
        fields_1 == IF all THEN instance_fields \o base_fields ELSE fields
        fields_2 == IF include_id THEN Remove(fields_1, "id") ELSE fields_1
        table_fields == IF include_id THEN id_field \o fields_2 ELSE fields_2
    IN  [ret |-> IF \A i \in DOMAIN table_fields : table_fields[i] \in table_instance
                 THEN <<"columns", table_fields>>
                 ELSE Raise("AttributeError"),
         fields |-> IF all THEN fields ELSE fields_2]

_id_field(self, table_instance) ==
    _get_table_field(table_instance, self._id_name)

\* sortby is None or one column name; ret is None, or the exception of the
\* getattr that fails
_build_sort(self, stmt, table_instance, sortby, ascending) ==
    LET column == IF sortby = "None" THEN _id_field(self, table_instance)
                  ELSE _get_table_field(table_instance, sortby)
        direction == IF sortby = "None" \/ ascending THEN "asc" ELSE "desc"
    IN  IF IsRaise(column) THEN [ret |-> column, stmt |-> stmt]
        ELSE [ret |-> None, stmt |-> [stmt EXCEPT !.order_by = <<direction, column[2]>>]]

\* Faulty variant: the instance default is looked at before the per-call format
_build_output_instance_first(self, fields, specified_output, default_output) ==
    IF self._default_output # "None"
    THEN IF self._default_output = "dataframe" THEN <<"DataFrame", fields>> ELSE <<"dicts", fields>>
    ELSE IF specified_output # "None"
    THEN IF specified_output = "dataframe" THEN <<"DataFrame", fields>> ELSE <<"dicts", fields>>
    ELSE IF default_output = "dataframe" THEN <<"DataFrame", fields>>
    ELSE <<"dicts", fields>>

_build_output(self, fields, specified_output, default_output) ==
    IF specified_output # "None"
    THEN IF specified_output = "dataframe" THEN <<"DataFrame", fields>> ELSE <<"dicts", fields>>
    ELSE IF self._default_output # "None"
    THEN IF self._default_output = "dataframe" THEN <<"DataFrame", fields>> ELSE <<"dicts", fields>>
    ELSE IF default_output = "dataframe" THEN <<"DataFrame", fields>>
    ELSE <<"dicts", fields>>

\* a SELECT statement under construction
Select(columns) ==
    [select |-> columns, where |-> None, order_by |-> <<>>,
     offset |-> NoValue, limit |-> NoValue]

NoStmt == Select(<<>>)

\* stmt.offset(offset).limit(limit), each applied only when not None (NoValue)
Paginate(stmt, offset, limit) ==
    [stmt EXCEPT !.offset = offset, !.limit = limit]

(***************************************************************************)
(* Inputs.                                                                 *)
(***************************************************************************)
AND == Str("&")
OR == Str("|")
ta == Tuple3("id", "=", IntValue(5))
tb == Tuple3("amount", ">", IntValue(500))
t_missing == Tuple3("missing_field", "=", IntValue(1))
t_badop == Tuple3("id", "like", IntValue(1))
t_list == List3("name", "=", IntValue(7))
bad_marker == Str("!")

CoreElements == {AND, OR, ta, tb}
WideElements == {AND, OR, ta, t_missing, t_badop, t_list, Tuple2, List2, bad_marker}

SeqsUpTo(S, n) == UNION {[1..k -> S] : k \in 0..n}

CoreStructures == SeqsUpTo(CoreElements, MaxCoreLen)
WideStructures == SeqsUpTo(WideElements, MaxWideLen)
Structures == CoreStructures \cup WideStructures
HelperStructures == SeqsUpTo(CoreElements, MaxHelperLen)

Values ==
    {IntValue(5), StrValue(<<"a", "s">>), StrValue(<<"a">>), StrValue(<<"A">>),
     ListValue(<<>>), ListValue(<<1>>), ListValue(<<1, 2>>), ListValue(<<1, 2, 3>>)}

Fragments ==
    {Tuple3(f, o, v) : f \in {"id", "name", "missing_field"},
                       o \in ComparisonOperator \cup DOMAIN _comparison_operation
                             \cup {"like", "=="},
                       v \in Values}
    \cup WideElements

Pagination == {<<NoValue, NoValue>>, <<IntValue(2), IntValue(3)>>}
RecordIds == {IntValue(1), IntValue(9), ListValue(<<>>), ListValue(<<1, 2>>)}
FieldLists ==
    {<<>>, <<"name">>, <<"id", "name">>, <<"name", "id">>, <<"name", "id", "id">>,
     <<"missing_field">>}
FieldNames == {"id", "name", "missing_field"}
SortBy == {"None", "name", "missing_field"}
OutputOptions == {"None", "dataframe", "dict"}

(***************************************************************************)
(* State.                                                                  *)
(***************************************************************************)
VARIABLES
    self,       \* the DMLManager instance: _default_output, _id_name
    pc,         \* "idle", or "done" once the call named by `call` has ended
    call,       \* the operation called last
    criteria,   \* the criteria structure the caller passed to it
    fragment,   \* the triplet the caller passed to _create_individual_query
    args,       \* the other arguments of the call
    fields,     \* the caller's `fields` list object, as the call left it
    stmt,       \* the statement a public operation built
    invoked,    \* the structures _build_where was called with, in call order
    result,     \* what the call returned or raised
    _where,     \* the class-level state of DMLManager._where: its operator maps
    earlier,    \* an earlier _build_where call: its criteria and its result
    callers     \* the concurrent callers of _build_where: the criteria of each,
                \* its stack of activations, and what its call returned or raised

vars == <<self, pc, call, criteria, fragment, args, fields, stmt, invoked, result,
          _where, earlier, callers>>

Callers == {1, 2}
NotCalling == [status |-> "idle", criteria |-> <<>>, stack |-> <<>>, ret |-> None]

\* the keys of the two class attributes of _where, each with what it builds
ClassState ==
    [_comparison_operation |-> _comparison_operation,
     _logic_operation |-> [op \in LogicOperator |-> IF op = "&" THEN "and" ELSE "or"]]

NoCall == [criteria |-> <<>>, result |-> <<"no call">>]

NoArgs == [record_ids |-> NoValue, field |-> "", offset |-> NoValue, limit |-> NoValue,
           sortby |-> "None", ascending |-> TRUE, output_format |-> "None",
           cs_1 |-> <<>>, cs_2 |-> <<>>, fields |-> <<>>, include_id |-> TRUE,
           default_output |-> "None", data |-> <<>>]

Init ==
    /\ self = [_default_output |-> "None", _id_name |-> "id"]
    /\ pc = "idle"
    /\ call = ""
    /\ criteria = <<>>
    /\ fragment = Tuple2
    /\ args = NoArgs
    /\ fields = <<>>
    /\ stmt = NoStmt
    /\ invoked = <<>>
    /\ result = None
    /\ _where = ClassState
    /\ earlier = NoCall
    /\ callers = [c \in Callers |-> NotCalling]

\* the record of a finished call
Done(name, cs, frag, a, fs, st, inv, res) ==
    /\ pc = "idle"
    /\ pc' = "done"
    /\ call' = name
    /\ criteria' = cs
    /\ fragment' = frag
    /\ args' = a
    /\ fields' = fs
    /\ stmt' = st
    /\ invoked' = inv
    /\ result' = res
    /\ UNCHANGED <<self, _where, earlier, callers>>

(***************************************************************************)
(* Direct calls of the compiler and of the predicate builder.              *)
(***************************************************************************)
BuildWhere(search_criteria) ==
    LET run == _build_where(Commisions, search_criteria)
    IN  Done("_build_where", search_criteria, Tuple2, NoArgs, <<>>, NoStmt,
             <<search_criteria>> \o run.invoked, run.ret)

CreateIndividualQuery(frag) ==
    Done("_create_individual_query", <<>>, frag, NoArgs, <<>>, NoStmt, <<>>,
         _create_individual_query(Commisions, frag))

GetTableFields(fs, include_id) ==
    LET tf == _get_table_fields(Commisions, fs, include_id)
    IN  Done("_get_table_fields", <<>>, Tuple2,
             [NoArgs EXCEPT !.fields = fs, !.include_id = include_id],
             tf.fields, NoStmt, <<>>, tf.ret)

\* a returned bool is tagged "bool"
IsTriplet(value) ==
    Done("_is_triplet", <<>>, value, NoArgs, <<>>, NoStmt, <<>>,
         <<"bool", _is_triplet(value)>>)

(***************************************************************************)
(* The structure-combination helpers.  A returned structure is tagged      *)
(* "criteria".                                                             *)
(***************************************************************************)
\* Faulty variant: the operands are joined in the opposite order
and_swapped_operands(cs_1, cs_2) ==
    IF Len(cs_1) # 0 /\ Len(cs_2) # 0 THEN <<Str("&")>> \o cs_2 \o cs_1
    ELSE IF Len(cs_1) # 0 THEN cs_1
    ELSE cs_2

and_(cs_1, cs_2) ==
    IF Len(cs_1) # 0 /\ Len(cs_2) # 0 THEN <<Str("&")>> \o cs_1 \o cs_2
    ELSE IF Len(cs_1) # 0 THEN cs_1
    ELSE cs_2

\* Faulty variant: the marker is prepended whatever the operands hold
or_always_joined(cs_1, cs_2) == <<Str("|")>> \o cs_1 \o cs_2

or_(cs_1, cs_2) ==
    IF Len(cs_1) # 0 /\ Len(cs_2) # 0 THEN <<Str("|")>> \o cs_1 \o cs_2
    ELSE IF Len(cs_1) # 0 THEN cs_1
    ELSE cs_2

And(cs_1, cs_2) ==
    Done("and_", <<>>, Tuple2, [NoArgs EXCEPT !.cs_1 = cs_1, !.cs_2 = cs_2], <<>>,
         NoStmt, <<>>, <<"criteria", and_(cs_1, cs_2)>>)

Or(cs_1, cs_2) ==
    Done("or_", <<>>, Tuple2, [NoArgs EXCEPT !.cs_1 = cs_1, !.cs_2 = cs_2], <<>>,
         NoStmt, <<>>, <<"criteria", or_(cs_1, cs_2)>>)

(***************************************************************************)
(* Public operations.  The database is an external collaborator: the rows  *)
(* an executed statement fetches are not modelled, only their number where *)
(* the operation depends on it.                                            *)
(***************************************************************************)
\* Faulty variant: the compiler is called whatever the length of the criteria
WhereOf_unguarded(search_criteria) ==
    [run |-> _build_where(Commisions, search_criteria), calls |-> <<search_criteria>>]

\* `if len(search_criteria) > 0: stmt = stmt.where(_build_where(...))`:
\* run is the compiler's activation, or None when the compiler is skipped
WhereOf(search_criteria) ==
    IF Len(search_criteria) > 0
    THEN [run |-> _build_where(Commisions, search_criteria),
          calls |-> <<search_criteria>>]
    ELSE [run |-> [ret |-> None, invoked |-> <<>>, depth |-> 0], calls |-> <<>>]

Search(search_criteria, offset, limit) ==
    LET table_instance == Commisions
        id == _id_field(self, table_instance)
        w == WhereOf(search_criteria)
        a == [NoArgs EXCEPT !.offset = offset, !.limit = limit]
        built == Paginate([Select(<<id[2]>>) EXCEPT !.where = w.run.ret,
                                                    !.order_by = <<"asc", id[2]>>],
                          offset, limit)
    IN  IF IsRaise(id)
        THEN Done("search", search_criteria, Tuple2, a, <<>>, NoStmt, <<>>, id)
        ELSE IF IsRaise(w.run.ret)
        THEN Done("search", search_criteria, Tuple2, a, <<>>, NoStmt,
                  w.calls \o w.run.invoked, w.run.ret)
        ELSE Done("search", search_criteria, Tuple2, a, <<>>, built,
                  w.calls \o w.run.invoked,
                  \* data['id'].to_list(); KeyError is caught and [] returned
                  IF id[2] = "id" THEN <<"list", "id">> ELSE <<"list">>)

SearchCount(search_criteria) ==
    LET w == WhereOf(search_criteria)
        built == [Select(<<"count">>) EXCEPT !.where = w.run.ret]
    IN  IF IsRaise(w.run.ret)
        THEN Done("search_count", search_criteria, Tuple2, NoArgs, <<>>, NoStmt,
                  w.calls \o w.run.invoked, w.run.ret)
        ELSE Done("search_count", search_criteria, Tuple2, NoArgs, <<>>, built,
                  w.calls \o w.run.invoked, <<"scalar">>)

SearchRead(search_criteria, fs, offset, limit, sortby, ascending, output_format) ==
    LET table_instance == Commisions
        a == [NoArgs EXCEPT !.offset = offset, !.limit = limit, !.sortby = sortby,
                            !.ascending = ascending, !.output_format = output_format,
                            !.fields = fs]
        tf == _get_table_fields(table_instance, fs, TRUE)
        w == WhereOf(search_criteria)
        inv == w.calls \o w.run.invoked
        filtered == [Select(tf.ret[2]) EXCEPT !.where = w.run.ret]
        sorted == _build_sort(self, filtered, table_instance, sortby, ascending)
    IN  IF IsRaise(tf.ret)
        THEN Done("search_read", search_criteria, Tuple2, a, tf.fields, NoStmt, <<>>, tf.ret)
        ELSE IF IsRaise(w.run.ret)
        THEN Done("search_read", search_criteria, Tuple2, a, tf.fields, NoStmt, inv, w.run.ret)
        ELSE IF IsRaise(sorted.ret)
        THEN Done("search_read", search_criteria, Tuple2, a, tf.fields, NoStmt, inv, sorted.ret)
        ELSE Done("search_read", search_criteria, Tuple2, a, tf.fields,
                  Paginate(sorted.stmt, offset, limit), inv,
                  _build_output(self, tf.ret[2], output_format, "dataframe"))

\* `if isinstance(record_ids, int): record_ids = [record_ids,]`
AsList(record_ids) ==
    IF record_ids.shape = "int" THEN ListValue(record_ids.elems) ELSE record_ids

Read(record_ids, fs, sortby, ascending, output_format) ==
    LET table_instance == Commisions
        a == [NoArgs EXCEPT !.record_ids = record_ids, !.sortby = sortby,
                            !.ascending = ascending, !.output_format = output_format,
                            !.fields = fs]
        tf == _get_table_fields(table_instance, fs, TRUE)
        cs == <<Tuple3("id", "in", AsList(record_ids))>>
        run == _build_where(table_instance, cs)
        inv == <<cs>> \o run.invoked
        filtered == [Select(tf.ret[2]) EXCEPT !.where = run.ret]
        sorted == _build_sort(self, filtered, table_instance, sortby, ascending)
    IN  IF IsRaise(tf.ret)
        THEN Done("read", <<>>, Tuple2, a, tf.fields, NoStmt, <<>>, tf.ret)
        ELSE IF IsRaise(run.ret)
        THEN Done("read", <<>>, Tuple2, a, tf.fields, NoStmt, inv, run.ret)
        ELSE IF IsRaise(sorted.ret)
        THEN Done("read", <<>>, Tuple2, a, tf.fields, NoStmt, inv, sorted.ret)
        ELSE Done("read", <<>>, Tuple2, a, tf.fields, sorted.stmt, inv,
                  _build_output(self, tf.ret[2], output_format, "dataframe"))

\* `[ data ] = response.fetchall()` needs exactly one fetched row
GetValue(record_id, field, rows) ==
    LET table_instance == Commisions
        a == [NoArgs EXCEPT !.record_ids = record_id, !.field = field]
        table_field == _get_table_field(table_instance, field)
        cs == <<Tuple3("id", "=", record_id)>>
        run == _build_where(table_instance, cs)
        inv == <<cs>> \o run.invoked
        built == [Select(<<field>>) EXCEPT !.where = run.ret]
    IN  IF IsRaise(table_field)
        THEN Done("get_value", <<>>, Tuple2, a, <<>>, NoStmt, <<>>, table_field)
        ELSE IF IsRaise(run.ret)
        THEN Done("get_value", <<>>, Tuple2, a, <<>>, NoStmt, inv, run.ret)
        ELSE IF rows # 1
        THEN Done("get_value", <<>>, Tuple2, a, <<>>, built, inv, Raise("ValueError"))
        ELSE Done("get_value", <<>>, Tuple2, a, <<>>, built, inv, <<"value", field>>)

GetValues(record_id, fs, rows) ==
    LET table_instance == Commisions
        a == [NoArgs EXCEPT !.record_ids = record_id, !.fields = fs, !.include_id = FALSE]
        tf == _get_table_fields(table_instance, fs, FALSE)
        cs == <<Tuple3("id", "=", record_id)>>
        run == _build_where(table_instance, cs)
        inv == <<cs>> \o run.invoked
        built == [Select(tf.ret[2]) EXCEPT !.where = run.ret]
    IN  IF IsRaise(tf.ret)
        THEN Done("get_values", <<>>, Tuple2, a, tf.fields, NoStmt, <<>>, tf.ret)
        ELSE IF IsRaise(run.ret)
        THEN Done("get_values", <<>>, Tuple2, a, tf.fields, NoStmt, inv, run.ret)
        ELSE IF rows # 1
        THEN Done("get_values", <<>>, Tuple2, a, tf.fields, built, inv, Raise("ValueError"))
        ELSE Done("get_values", <<>>, Tuple2, a, tf.fields, built, inv, <<"row", tf.ret[2]>>)

\* INSERT ... RETURNING, UPDATE ... WHERE and DELETE ... WHERE statements
InsertStmt(returning, values) == [insert |-> values, returning |-> returning]
UpdateStmt(where, values) == [update |-> values, where |-> where]
DeleteStmt(where) == [delete |-> TRUE, where |-> where]

\* data is one dict or a list of dicts, each dict the sequence of its keys;
\* `if isinstance(data, dict): data = [data,]`
Create(data) ==
    LET table_instance == Commisions
        a == [NoArgs EXCEPT !.data = data]
        rows == IF data[1] = "dict" THEN <<data[2]>> ELSE data[2]
        returning == _get_table_field(table_instance, "id")
    IN  IF IsRaise(returning)
        THEN Done("create", <<>>, Tuple2, a, <<>>, NoStmt, <<>>, returning)
        ELSE Done("create", <<>>, Tuple2, a, <<>>, InsertStmt(<<returning[2]>>, rows),
                  <<>>, <<"list", "id">>)

Update(record_ids, data) ==
    LET table_instance == Commisions
        a == [NoArgs EXCEPT !.record_ids = record_ids, !.data = data]
        id == _id_field(self, table_instance)
    IN  IF IsRaise(id)
        THEN Done("update", <<>>, Tuple2, a, <<>>, NoStmt, <<>>, id)
        ELSE Done("update", <<>>, Tuple2, a, <<>>,
                  UpdateStmt(<<"prim", "in_", id[2], <<AsList(record_ids)>> >>, data[2]),
                  <<>>, <<"bool", TRUE>>)

Delete(record_ids) ==
    LET table_instance == Commisions
        a == [NoArgs EXCEPT !.record_ids = record_ids]
        id == _id_field(self, table_instance)
    IN  IF IsRaise(id)
        THEN Done("delete", <<>>, Tuple2, a, <<>>, NoStmt, <<>>, id)
        ELSE Done("delete", <<>>, Tuple2, a, <<>>,
                  DeleteStmt(<<"prim", "in_", id[2], <<AsList(record_ids)>> >>),
                  <<>>, <<"bool", TRUE>>)

\* the caller takes the outcome; the instance is ready for the next call
Return ==
    /\ pc = "done"
    /\ pc' = "idle"
    /\ call' = ""
    /\ criteria' = <<>>
    /\ fragment' = Tuple2
    /\ args' = NoArgs
    /\ fields' = <<>>
    /\ stmt' = NoStmt
    /\ invoked' = <<>>
    /\ result' = None
    /\ UNCHANGED <<self, _where, earlier, callers>>

\* search_read with every criteria structure and the other arguments left at
\* their defaults, or with every combination of the other arguments and a
\* short criteria structure
SearchReadCalls ==
    {<<cs, <<>>, NoValue, NoValue, "None", TRUE, "None">> : cs \in WideStructures}
    \cup {<<cs, fs, p[1], p[2], sb, asc, fmt>> :
            cs \in {<<>>, <<ta>>}, fs \in FieldLists, p \in Pagination,
            sb \in SortBy, asc \in BOOLEAN, fmt \in OutputOptions}

Next ==
    \/ pc = "idle" /\ \E cs \in Structures : BuildWhere(cs)
    \/ pc = "idle" /\ \E frag \in Fragments : CreateIndividualQuery(frag)
    \/ pc = "idle" /\ \E value \in Fragments : IsTriplet(value)
    \/ pc = "idle" /\ \E fs \in FieldLists, include_id \in BOOLEAN :
          GetTableFields(fs, include_id)
    \/ pc = "idle" /\ \E cs_1 \in HelperStructures, cs_2 \in HelperStructures : And(cs_1, cs_2)
    \/ pc = "idle" /\ \E cs_1 \in HelperStructures, cs_2 \in HelperStructures : Or(cs_1, cs_2)
    \/ pc = "idle" /\ \E cs \in WideStructures, p \in Pagination : Search(cs, p[1], p[2])
    \/ pc = "idle" /\ \E c \in SearchReadCalls :
          SearchRead(c[1], c[2], c[3], c[4], c[5], c[6], c[7])
    \/ pc = "idle" /\ \E cs \in WideStructures : SearchCount(cs)
    \/ pc = "idle" /\ \E ids \in RecordIds, fs \in FieldLists, sb \in SortBy,
          asc \in BOOLEAN, fmt \in OutputOptions : Read(ids, fs, sb, asc, fmt)
    \/ pc = "idle" /\ \E id \in {IntValue(1), IntValue(9)}, f \in FieldNames,
          rows \in 0..2 : GetValue(id, f, rows)
    \/ pc = "idle" /\ \E id \in {IntValue(1), IntValue(9)}, fs \in FieldLists,
          rows \in 0..2 : GetValues(id, fs, rows)
    \/ Return

Spec == Init /\ [][Next]_vars

(***************************************************************************)
(* _build_output on instances constructed with every output_format.        *)
(***************************************************************************)
OutputColumns == SeqsUpTo({"id", "name"}, 2) \ {<<>>}

InitOutput ==
    /\ self \in {[_default_output |-> o, _id_name |-> "id"] : o \in OutputOptions}
    /\ pc = "idle"
    /\ call = ""
    /\ criteria = <<>>
    /\ fragment = Tuple2
    /\ args = NoArgs
    /\ fields = <<>>
    /\ stmt = NoStmt
    /\ invoked = <<>>
    /\ result = None
    /\ _where = ClassState
    /\ earlier = NoCall
    /\ callers = [c \in Callers |-> NotCalling]

BuildOutput(columns, specified_output, default_output) ==
    Done("_build_output", <<>>, Tuple2,
         [NoArgs EXCEPT !.output_format = specified_output,
                        !.default_output = default_output],
         <<>>, NoStmt, <<>>,
         _build_output(self, columns, specified_output, default_output))

NextOutput ==
    \/ pc = "idle" /\ \E columns \in OutputColumns, specified_output \in OutputOptions,
                          default_output \in OutputOptions :
          BuildOutput(columns, specified_output, default_output)
    \/ Return

SpecOutput == InitOutput /\ [][NextOutput]_vars

(***************************************************************************)
(* The operations that go by record identifier, on instances constructed   *)
(* with every unique_identifier_field.                                     *)
(***************************************************************************)
IdNames == {"id", "name", "uid"}
DataInputs == {<<"dict", <<"name">> >>, <<"list", << <<"name">> >> >>,
               <<"list", << <<"name">>, <<"name", "amount">> >> >>}

InitId ==
    /\ self \in {[_default_output |-> "None", _id_name |-> n] : n \in IdNames}
    /\ pc = "idle"
    /\ call = ""
    /\ criteria = <<>>
    /\ fragment = Tuple2
    /\ args = NoArgs
    /\ fields = <<>>
    /\ stmt = NoStmt
    /\ invoked = <<>>
    /\ result = None
    /\ _where = ClassState
    /\ earlier = NoCall
    /\ callers = [c \in Callers |-> NotCalling]

NextId ==
    \/ pc = "idle" /\ \E data \in DataInputs : Create(data)
    \/ pc = "idle" /\ \E cs \in {<<>>, <<ta>>, <<tb>>}, p \in Pagination : Search(cs, p[1], p[2])
    \/ pc = "idle" /\ \E ids \in RecordIds, fs \in FieldLists, sb \in SortBy,
          asc \in BOOLEAN, fmt \in OutputOptions : Read(ids, fs, sb, asc, fmt)
    \/ pc = "idle" /\ \E id \in {IntValue(1), IntValue(9)}, f \in FieldNames,
          rows \in 0..2 : GetValue(id, f, rows)
    \/ pc = "idle" /\ \E id \in {IntValue(1), IntValue(9)}, fs \in FieldLists,
          rows \in 0..2 : GetValues(id, fs, rows)
    \/ pc = "idle" /\ \E ids \in RecordIds, data \in DataInputs : Update(ids, data)
    \/ pc = "idle" /\ \E ids \in RecordIds : Delete(ids)
    \/ Return

SpecId == InitId /\ [][NextId]_vars

(***************************************************************************)
(* The helpers applied to what the helpers produced: the structures made   *)
(* of the empty structure and of single triplets by and_ / or_ nested up   *)
(* to n deep are combined once more.                                       *)
(***************************************************************************)
RECURSIVE Produced(_)
Produced(n) ==
    IF n = 0 THEN {<<>>, <<ta>>, <<tb>>}
    ELSE LET below == Produced(n - 1)
         IN  below \cup {and_(x, y) : x \in below, y \in below}
                   \cup {or_(x, y) : x \in below, y \in below}

NextClosure ==
    \/ pc = "idle" /\ \E cs_1 \in Produced(MaxNesting), cs_2 \in Produced(MaxNesting) :
          And(cs_1, cs_2)
    \/ pc = "idle" /\ \E cs_1 \in Produced(MaxNesting), cs_2 \in Produced(MaxNesting) :
          Or(cs_1, cs_2)
    \/ Return

SpecClosure == Init /\ [][NextClosure]_vars

(***************************************************************************)
(* The compiler called again and again: a caller builds a criteria list,   *)
(* calls _build_where with it, and the call may be remembered to compare a *)
(* later call with it.                                                     *)
(***************************************************************************)
PureElements == {AND, ta, tb}
PureStructures == SeqsUpTo(PureElements, MaxPureLen)

\* the caller's list object, about to be passed
PureCall(search_criteria) ==
    /\ pc = "idle"
    /\ pc' = "called"
    /\ call' = "_build_where"
    /\ criteria' = search_criteria
    /\ UNCHANGED <<self, fragment, args, fields, stmt, invoked, result, _where, earlier, callers>>

\* Faulty variant: the activation pops the elements it consumed off the caller's list
PureRun_consuming ==
    /\ pc = "called"
    /\ pc' = "done"
    /\ LET run == _build_where(Commisions, criteria)
       IN  /\ result' = run.ret
           /\ invoked' = <<criteria>> \o run.invoked
    /\ criteria' = IF Len(criteria) > 3 THEN LeftSpan(criteria) ELSE criteria
    /\ UNCHANGED <<self, call, fragment, args, fields, stmt, _where, earlier, callers>>

\* _build_where runs to its end: it reads search_criteria by index and by slice
\* (a slice is a new list), assigns to no element of it and to no attribute of
\* the class
PureRun ==
    /\ pc = "called"
    /\ pc' = "done"
    /\ LET run == _build_where(Commisions, criteria)
       IN  /\ result' = run.ret
           /\ invoked' = <<criteria>> \o run.invoked
    /\ UNCHANGED <<self, call, criteria, fragment, args, fields, stmt, _where, earlier, callers>>

\* the caller goes on; a call that returned a predicate may be remembered
PureReturn(remember) ==
    /\ pc = "done"
    /\ pc' = "idle"
    /\ earlier' = IF remember /\ IsPredicate(result)
                  THEN [criteria |-> criteria, result |-> result]
                  ELSE earlier
    /\ call' = ""
    /\ criteria' = <<>>
    /\ invoked' = <<>>
    /\ result' = None
    /\ UNCHANGED <<self, fragment, args, fields, stmt, _where, callers>>

NextPure ==
    \/ pc = "idle" /\ \E cs \in PureStructures : PureCall(cs)
    \/ PureRun
    \/ \E remember \in BOOLEAN : PureReturn(remember)

SpecPure == Init /\ [][NextPure]_vars

(***************************************************************************)
(* _build_where called by several callers at once.  A caller's call is a   *)
(* stack of activations; a step of a caller runs its top activation up to  *)
(* its next call of _build_where or to its end, and the steps of the       *)
(* callers interleave.  An activation holds its span, where it stands      *)
(* ("enter", or waiting for the "right" or the "left" operand), the left   *)
(* operand it built before calling, and what the activation it called      *)
(* handed back.                                                            *)
(***************************************************************************)
\* each caller builds its criteria of its own elements
ConcElements(c) == IF c = 1 THEN {AND, ta} ELSE {OR, tb}
ConcStructures(c) == SeqsUpTo(ConcElements(c), MaxConcLen)

Pending == <<"pending">>
Activation(sc) == [sc |-> sc, at |-> "enter", left |-> None, got |-> Pending]

\* what an entered activation does first: it returns (or raises) a value, or
\* it calls _build_where for a span
ActivationStart(table, search_criteria) ==
    LET n == Len(search_criteria)
    IN  IF n = 1
        THEN [kind |-> "return", at |-> "enter", left |-> None, span |-> <<>>,
              value |-> _create_individual_query(table, search_criteria[1])]
        ELSE IF n = 0
        THEN [kind |-> "return", at |-> "enter", left |-> None, span |-> <<>>,
              value |-> None]
        ELSE IF n < 3
        THEN [kind |-> "return", at |-> "enter", left |-> None, span |-> <<>>,
              value |-> Raise("IndexError")]
        ELSE
        LET istriplet_1 == _is_triplet(search_criteria[1])
            istriplet_2 == _is_triplet(search_criteria[2])
            istriplet_3 == _is_triplet(search_criteria[3])
            op == search_criteria[1]
        IN  IF ~istriplet_1 /\ istriplet_2 /\ istriplet_3
            THEN [kind |-> "return", at |-> "enter", left |-> None, span |-> <<>>,
                  value |-> _merge_queries(op,
                                _create_individual_query(table, search_criteria[2]),
                                _create_individual_query(table, search_criteria[3]))]
            ELSE IF istriplet_2
            THEN LET condition_1 == _create_individual_query(table, search_criteria[2])
                 IN  IF IsRaise(condition_1)
                     THEN [kind |-> "return", at |-> "enter", left |-> None,
                           span |-> <<>>, value |-> condition_1]
                     ELSE [kind |-> "call", at |-> "right", left |-> condition_1,
                           span |-> RightSpan(search_criteria), value |-> None]
            ELSE [kind |-> "call", at |-> "left", left |-> None,
                  span |-> LeftSpan(search_criteria), value |-> None]

\* what an activation returns (or raises) once the activation it called has
\* handed back `got`
ActivationResume(table, activation) ==
    LET search_criteria == activation.sc
        op == search_criteria[1]
    IN  IF activation.at = "right"
        THEN _merge_queries(op, activation.left, activation.got)
        ELSE _merge_queries(op, activation.got,
                 IF IsRaise(activation.got) THEN None
                 ELSE _create_individual_query(table, search_criteria[Len(search_criteria)]))

\* the value handed to the activation below the top one, or to the caller
HandBack(t, value) ==
    LET below == SubSeq(t.stack, 1, Len(t.stack) - 1)
    IN  IF below = <<>>
        THEN [t EXCEPT !.status = "done", !.stack = <<>>, !.ret = value]
        ELSE [t EXCEPT !.stack = [below EXCEPT ![Len(below)].got = value]]

\* one step of a running caller
Advance(table, t) ==
    LET top == t.stack[Len(t.stack)]
        start == ActivationStart(table, top.sc)
    IN  IF top.at # "enter" THEN HandBack(t, ActivationResume(table, top))
        ELSE IF start.kind = "return" THEN HandBack(t, start.value)
        ELSE [t EXCEPT !.stack =
                 Append([t.stack EXCEPT ![Len(t.stack)] =
                            [top EXCEPT !.at = start.at, !.left = start.left]],
                        Activation(start.span))]

ConcCall(c, search_criteria) ==
    /\ callers[c].status = "idle"
    /\ callers' = [callers EXCEPT ![c] =
                      [status |-> "running", criteria |-> search_criteria,
                       stack |-> <<Activation(search_criteria)>>, ret |-> None]]
    /\ UNCHANGED <<self, pc, call, criteria, fragment, args, fields, stmt, invoked,
                   result, _where, earlier>>

\* Faulty variant: the activations are kept in one place for all the callers,
\* so a caller steps on the stack of caller 1 while that one is running
ConcStep_shared_stack(c) ==
    /\ callers[c].status = "running"
    /\ LET owner == IF callers[1].status = "running" THEN 1 ELSE c
       IN  callers' = [callers EXCEPT ![c] =
                          Advance(Commisions,
                                  [callers[c] EXCEPT !.stack = callers[owner].stack])]
    /\ UNCHANGED <<self, pc, call, criteria, fragment, args, fields, stmt, invoked,
                   result, _where, earlier>>

\* the locals of an activation belong to it, and it reads the class maps only
ConcStep(c) ==
    /\ callers[c].status = "running"
    /\ callers' = [callers EXCEPT ![c] = Advance(Commisions, callers[c])]
    /\ UNCHANGED <<self, pc, call, criteria, fragment, args, fields, stmt, invoked,
                   result, _where, earlier>>

ConcReturn(c) ==
    /\ callers[c].status = "done"
    /\ callers' = [callers EXCEPT ![c] = NotCalling]
    /\ UNCHANGED <<self, pc, call, criteria, fragment, args, fields, stmt, invoked,
                   result, _where, earlier>>

NextConc ==
    \/ \E c \in Callers :
          callers[c].status = "idle" /\ \E cs \in ConcStructures(c) : ConcCall(c, cs)
    \/ \E c \in Callers : ConcStep(c)
    \/ \E c \in Callers : ConcReturn(c)

SpecConc == Init /\ [][NextConc]_vars

\* One caller, any structure of the core elements, and a call that is not
\* held up for ever: _build_where waits for nothing.
NextTerm ==
    \/ callers[1].status = "idle"
          /\ \E cs \in SeqsUpTo(CoreElements, MaxTermLen) : ConcCall(1, cs)
    \/ ConcStep(1)
    \/ ConcReturn(1)

SpecTerm == Init /\ [][NextTerm]_vars /\ WF_vars(ConcStep(1))

(***************************************************************************)
(* Properties.                                                             *)
(***************************************************************************)
IsMarker(e) == e.type = "str" /\ e.sym \in LogicOperator
IsTripletElement(e) == e.type \in {"tuple", "list"} /\ e.n = 3

Atomic(t) == _create_individual_query(Commisions, t)

\* AND / OR of two operands, the exception of the first failing operand if any
Compose(sym, left, right) ==
    IF IsRaise(left) THEN left
    ELSE IF IsRaise(right) THEN right
    ELSE <<IF sym = "&" THEN "and" ELSE "or", left, right>>

\* The reference reading of a criteria structure, E ::= Triplet | Marker E E,
\* from position i: whether an E starts there, its predicate tree, and the
\* position after it.
RECURSIVE PrefixParse(_, _)
PrefixParse(cs, i) ==
    IF i > Len(cs) THEN [ok |-> FALSE, tree |-> None, next |-> i]
    ELSE IF IsTripletElement(cs[i]) THEN [ok |-> TRUE, tree |-> Atomic(cs[i]), next |-> i + 1]
    ELSE IF ~IsMarker(cs[i]) THEN [ok |-> FALSE, tree |-> None, next |-> i]
    ELSE LET l == PrefixParse(cs, i + 1)
         IN  IF ~l.ok THEN [ok |-> FALSE, tree |-> None, next |-> i]
             ELSE LET r == PrefixParse(cs, l.next)
                  IN  IF ~r.ok THEN [ok |-> FALSE, tree |-> None, next |-> i]
                      ELSE [ok |-> TRUE, tree |-> Compose(cs[i].sym, l.tree, r.tree),
                            next |-> r.next]

WellFormed(cs) == PrefixParse(cs, 1).ok /\ PrefixParse(cs, 1).next = Len(cs) + 1

Compiled == pc = "done" /\ call = "_build_where"

PublicCalls == {"search", "search_read", "search_count", "read", "get_value", "get_values"}

\* C1: for every well-formed prefix-notation structure, _build_where returns
\* the predicate tree of the prefix parse (each marker composes exactly the
\* two operand sub-structures that follow it).
C1_PrefixParseTree ==
    (Compiled /\ WellFormed(criteria)) => result = PrefixParse(criteria, 1).tree

\* C2: when the element right after the leading marker is not a triplet, the
\* result is compose(marker, compile(elements 1 .. last - 1), atomic(last)),
\* an exception when an operand fails; every [m1, m2, a, b, c] compiles to
\* (a m2 b) m1 c.
C2_NestedLeftOperand ==
    (Compiled /\ Len(criteria) >= 2 /\ IsMarker(criteria[1]) /\ ~_is_triplet(criteria[2])) =>
        LET n == Len(criteria)
            left == _build_where(Commisions, SubSeq(criteria, 2, n - 1)).ret
            right == Atomic(criteria[n])
        IN  /\ n = 2 => IsRaise(result)
            /\ n >= 3 => result = Compose(criteria[1].sym, left, right)
            /\ (n = 5 /\ IsMarker(criteria[2]) /\ \A i \in 3..5 : criteria[i] \in {ta, tb}) =>
                   result = Compose(criteria[1].sym,
                                    Compose(criteria[2].sym, Atomic(criteria[3]),
                                            Atomic(criteria[4])),
                                    Atomic(criteria[5]))

C2_Witness ==
    /\ Compiled
    /\ criteria = <<AND, OR, ta, tb, ta>>
    /\ result = <<"and", <<"or", Atomic(ta), Atomic(tb)>>, Atomic(ta)>>

C4_SingleTriplet ==
    (Compiled /\ Len(criteria) = 1) =>
        /\ result = Atomic(criteria[1])
        /\ result[1] \notin {"and", "or"}
        /\ invoked = <<criteria>>

C4_Witness ==
    /\ Compiled
    /\ criteria = <<tb>>
    /\ result = <<"prim", "__gt__", "amount", <<IntValue(500)>> >>

\* C5: a structure whose leading well-formed unit is followed by further
\* elements makes _build_where raise; it never returns a predicate that
\* leaves out some of the input.
C5_TrailingTermsRaise ==
    (Compiled /\ PrefixParse(criteria, 1).ok /\ PrefixParse(criteria, 1).next <= Len(criteria)) =>
        IsRaise(result)

\* C6: a marker followed by fewer than two elements ([m] or [m, x]) makes the
\* call raise, whether the top-level structure or a recursive sub-span has
\* that form.
C6_MarkerNeedsTwoOperands ==
    (pc = "done" /\ \E i \in DOMAIN invoked :
                       Len(invoked[i]) \in {1, 2} /\ IsMarker(invoked[i][1])) =>
        IsRaise(result)

C6_Witness ==
    /\ Compiled
    /\ criteria = <<AND, ta, OR, ta>>
    /\ invoked = <<criteria, <<OR, ta>> >>
    /\ IsRaise(result)

\* C7: _build_where called with the empty structure raises; it returns
\* nothing to the caller.
C7_EmptyRaises ==
    (Compiled /\ criteria = <<>>) => IsRaise(result)

\* C8: no public operation ever invokes _build_where, at the top or
\* recursively, with a zero-element structure; an empty search_criteria skips
\* the compiler and attaches no WHERE clause.
C8_CompilerNeverGetsEmpty ==
    (pc = "done" /\ call \in PublicCalls) =>
        /\ \A i \in DOMAIN invoked : Len(invoked[i]) > 0
        /\ (call \in {"search", "search_read", "search_count"} /\ criteria = <<>>) =>
              (invoked = <<>> /\ stmt.where = None)

C8_Witness ==
    /\ pc = "done"
    /\ call = "search"
    /\ criteria = <<>>
    /\ invoked = <<>>
    /\ stmt.where = None
    /\ stmt.select = <<"id">>
    /\ result = <<"list", "id">>

\* C9: a structure that contains, at any position, a triplet whose field is
\* not on the table fails to compile; no unknown field is ignored.
C9_UnknownFieldRaises ==
    (Compiled /\ \E i \in DOMAIN criteria :
                    IsTripletElement(criteria[i]) /\ criteria[i].field \notin Commisions) =>
        IsRaise(result)

\* the value shape the operator table asks for
RequiredShape(o, v) ==
    CASE o = "><" -> v.shape = "list" /\ Len(v.elems) = 2
      [] o \in {"in", "not in"} -> v.shape = "list"
      [] o \in {"ilike", "not ilike", "~", "~*"} -> v.shape = "str"
      [] OTHER -> v.shape \in {"int", "str"}

\* C10: _create_individual_query builds a predicate for exactly the operators
\* of ComparisonOperator; a triplet with any other operator raises.
C10_ClosedOperatorSet ==
    (pc = "done" /\ call = "_create_individual_query" /\ IsTripletElement(fragment)) =>
        /\ IsPredicate(result) => fragment.op \in ComparisonOperator
        /\ fragment.op \notin ComparisonOperator => result = Raise("KeyError")
        /\ (fragment.op \in ComparisonOperator /\ fragment.field \in Commisions
               /\ RequiredShape(fragment.op, fragment.value)) => IsPredicate(result)

C10_Witness ==
    /\ pc = "done"
    /\ call = "_create_individual_query"
    /\ fragment = Tuple3("id", "like", IntValue(5))
    /\ result = Raise("KeyError")

Built == pc = "done" /\ call = "_create_individual_query"

\* C11: a triplet whose value has not the shape its operator requires is
\* rejected: a '><' triplet whose value is not a list of exactly two elements
\* yields no predicate, and neither does an 'in' triplet with a scalar value.
C11_ValueShapeMismatch ==
    (Built /\ IsTripletElement(fragment)
        /\ \/ fragment.op = "><"
              /\ ~(fragment.value.shape = "list" /\ Len(fragment.value.elems) = 2)
           \/ fragment.op = "in" /\ fragment.value.shape # "list") =>
        IsRaise(result)

Combined == pc = "done" /\ call \in {"and_", "or_"}
CombineMarker == IF call = "and_" THEN AND ELSE OR

\* C12: for non-empty structures csA and csB, and_(csA, csB) is the sequence
\* ['&'] followed by the elements of csA followed by the elements of csB, in
\* order, and or_(csA, csB) is the same sequence with '|' as first element.
C12_CombineNonEmpty ==
    (Combined /\ args.cs_1 # <<>> /\ args.cs_2 # <<>>) =>
        /\ result[1] = "criteria"
        /\ Len(result[2]) = 1 + Len(args.cs_1) + Len(args.cs_2)
        /\ result[2][1] = CombineMarker
        /\ \A i \in 1..Len(args.cs_1) : result[2][1 + i] = args.cs_1[i]
        /\ \A i \in 1..Len(args.cs_2) : result[2][1 + Len(args.cs_1) + i] = args.cs_2[i]

C12_Witness ==
    /\ pc = "done" /\ call = "or_"
    /\ args.cs_1 = <<ta>> /\ args.cs_2 = <<AND, ta, tb>>
    /\ result = <<"criteria", <<OR, ta, AND, ta, tb>> >>

\* C13: with exactly one empty operand, on either side, and_ and or_ return
\* the non-empty structure unchanged, so compiling the combination gives what
\* compiling the non-empty structure gives; with both operands empty they
\* return the empty structure.
C13_CombineShortCircuit ==
    Combined =>
        /\ (args.cs_1 # <<>> /\ args.cs_2 = <<>>) =>
              /\ result = <<"criteria", args.cs_1>>
              /\ _build_where(Commisions, result[2]).ret
                    = _build_where(Commisions, args.cs_1).ret
        /\ (args.cs_1 = <<>> /\ args.cs_2 # <<>>) =>
              /\ result = <<"criteria", args.cs_2>>
              /\ _build_where(Commisions, result[2]).ret
                    = _build_where(Commisions, args.cs_2).ret
        /\ (args.cs_1 = <<>> /\ args.cs_2 = <<>>) => result = <<"criteria", <<>> >>

C13_Witness ==
    /\ pc = "done" /\ call = "and_"
    /\ args.cs_1 = <<AND, ta, tb>> /\ args.cs_2 = <<>>
    /\ result = <<"criteria", <<AND, ta, tb>> >>
    /\ _build_where(Commisions, result[2]).ret = Compose("&", Atomic(ta), Atomic(tb))

(***************************************************************************)
(* The backend's evaluation of a predicate on a stored record (SQLAlchemy  *)
(* 2.0.37 rendering for PostgreSQL, the backend setup.py pins):            *)
(*   contains(v)          column LIKE '%' || v || '%', which compares      *)
(*                        letters case-sensitively;                        *)
(*   regexp_match(v)      column ~ v, case-sensitive;                      *)
(*   regexp_match(v, 'i') column ~* v, case-insensitive;                   *)
(*   in_(S), not_in(S)    column IN S, column NOT IN S;                    *)
(*   between(l, h)        l <= column <= h.                                *)
(* Strings are sequences of letters, so a pattern holds no wildcard and no *)
(* regular-expression metacharacter.  A primitive applied to an operand of *)
(* another type than the column's holds of no record.                      *)
(***************************************************************************)
Chars == {"a", "s", "A", "S"}
Lower(c) == CASE c = "A" -> "a" [] c = "S" -> "s" [] OTHER -> c
LowerAll(cs) == [i \in 1..Len(cs) |-> Lower(cs[i])]

\* p occurs in s
Contains(s, p) == \E i \in 0..(Len(s) - Len(p)) : SubSeq(s, i + 1, i + Len(p)) = p

Records ==
    {[id |-> i, amount |-> m, name |-> n] :
        i \in 0..MaxId, m \in {500, 501}, n \in SeqsUpTo(Chars, MaxNameLen)}

ColumnValue(rec, field) ==
    IF field = "name" THEN StrValue(rec.name) ELSE IntValue(rec[field])

HoldsPrimitive(name, x, a) ==
    LET ints == x.shape = "int" /\ a[1].shape = "int"
        strs == x.shape = "str" /\ a[1].shape = "str"
    IN  CASE name = "__eq__" -> (ints \/ strs) /\ x.elems = a[1].elems
          [] name = "__ne__" -> (ints \/ strs) /\ x.elems # a[1].elems
          [] name = "__gt__" -> ints /\ x.elems[1] > a[1].elems[1]
          [] name = "__ge__" -> ints /\ x.elems[1] >= a[1].elems[1]
          [] name = "__lt__" -> ints /\ x.elems[1] < a[1].elems[1]
          [] name = "__le__" -> ints /\ x.elems[1] <= a[1].elems[1]
          [] name = "between" ->
                /\ ints /\ a[2].shape = "int"
                /\ a[1].elems[1] <= x.elems[1] /\ x.elems[1] <= a[2].elems[1]
          [] name = "in_" ->
                /\ x.shape = "int" /\ a[1].shape = "list"
                /\ \E i \in 1..Len(a[1].elems) : a[1].elems[i] = x.elems[1]
          [] name = "not_in" ->
                /\ x.shape = "int" /\ a[1].shape = "list"
                /\ \A i \in 1..Len(a[1].elems) : a[1].elems[i] # x.elems[1]
          [] name = "contains" -> strs /\ Contains(x.elems, a[1].elems)
          [] name = "regexp_match" ->
                /\ strs
                /\ IF Len(a) = 2
                   THEN Contains(LowerAll(x.elems), LowerAll(a[1].elems))
                   ELSE Contains(x.elems, a[1].elems)

RECURSIVE Holds(_, _)
Holds(pred, rec) ==
    CASE pred[1] = "prim" -> HoldsPrimitive(pred[2], ColumnValue(rec, pred[3]), pred[4])
      [] pred[1] = "not" -> ~Holds(pred[2], rec)
      [] pred[1] = "and" -> Holds(pred[2], rec) /\ Holds(pred[3], rec)
      [] pred[1] = "or" -> Holds(pred[2], rec) \/ Holds(pred[3], rec)

\* the predicate _create_individual_query builds for the triplet with another operator
WithOperator(t, o) == _create_individual_query(Commisions, [t EXCEPT !.op = o])

\* C14: the predicate built for (field, 'not ilike', value) is the logical NOT
\* of the predicate built for (field, 'ilike', value), whatever the field and
\* the value: of every stored string exactly one of the two holds.
C14_NotIlikeNegatesIlike ==
    (Built /\ IsTripletElement(fragment) /\ fragment.op = "not ilike") =>
        IF IsRaise(result) THEN result = WithOperator(fragment, "ilike")
        ELSE /\ result = <<"not", WithOperator(fragment, "ilike")>>
             /\ \A rec \in Records :
                    Holds(result, rec) # Holds(WithOperator(fragment, "ilike"), rec)

C14_Witness ==
    /\ Built /\ fragment = Tuple3("name", "not ilike", StrValue(<<"a", "s">>))
    /\ IsPredicate(result)
    /\ Holds(result, [id |-> 1, amount |-> 500, name |-> <<"s", "a">>])
    /\ ~Holds(result, [id |-> 1, amount |-> 500, name |-> <<"a", "s">>])

\* s contains v when letter case is ignored
ContainsIgnoringCase(s, v) == Contains(LowerAll(s), LowerAll(v))

Members(value) == {value.elems[i] : i \in 1..Len(value.elems)}

\* C16: the predicate for (f, 'in', S) accepts a record iff its f value is a
\* member of S, the predicate for (f, 'not in', S) accepts exactly the other
\* records, and read(table, ids) filters with the membership predicate of ids
\* on id.
C16_Membership ==
    /\ (Built /\ IsTripletElement(fragment) /\ fragment.field \in {"id", "amount"}
          /\ fragment.op \in {"in", "not in"} /\ fragment.value.shape = "list") =>
          /\ IsPredicate(result)
          /\ \A rec \in Records :
                Holds(result, rec) <=>
                    ((rec[fragment.field] \in Members(fragment.value))
                        <=> fragment.op = "in")
    /\ (pc = "done" /\ call = "read" /\ ~IsRaise(result)) =>
          \A rec \in Records :
              Holds(stmt.where, rec) <=> rec.id \in Members(AsList(args.record_ids))

C16_Witness ==
    /\ pc = "done" /\ call = "read" /\ ~IsRaise(result)
    /\ args.record_ids = ListValue(<<1, 2>>)
    /\ {rec.id : rec \in {r \in Records : Holds(stmt.where, r)}} = {1, 2}

\* span is a run of consecutive elements of search_criteria
IsSpanOf(span, search_criteria) ==
    \E i \in 0..(Len(search_criteria) - Len(span)) :
        span = SubSeq(search_criteria, i + 1, i + Len(span))

C18_ConcurrentCallsIsolated ==
    /\ [](\A c \in Callers :
             callers[c].status = "done" =>
                 callers[c].ret = _build_where(Commisions, callers[c].criteria).ret)
    /\ [](_where = ClassState)
    /\ [][\A c \in Callers :
             callers'[c] # callers[c] =>
                 (_where' = _where /\ \A d \in Callers \ {c} : callers'[d] = callers[d])]_vars

\* both callers in the middle of a nested call, then both done
C18_Witness ==
    /\ callers[1].status = "done" /\ callers[1].criteria = <<AND, ta, AND, ta, ta>>
    /\ callers[1].ret = Compose("&", Atomic(ta), Compose("&", Atomic(ta), Atomic(ta)))
    /\ callers[2].status = "running" /\ callers[2].criteria = <<OR, OR, tb, tb, tb>>
    /\ Len(callers[2].stack) = 2

\* C19: the default output format is 'dict': on an instance created without
\* an output format, read and search_read called without output_format return
\* a list of dictionaries, not a DataFrame.
C19_DefaultOutputIsDict ==
    (pc = "done" /\ call \in {"read", "search_read"} /\ ~IsRaise(result)
        /\ self._default_output = "None" /\ args.output_format = "None") =>
        result[1] = "dicts"

\* [m1, t1, m2, t2, ..., mk, tk, tk+1]: markers and triplets in turn, two
\* triplets at the end
IsRightChain(cs) ==
    /\ Len(cs) >= 3 /\ Len(cs) % 2 = 1
    /\ \A i \in 1..Len(cs) :
          IF i % 2 = 1 /\ i < Len(cs) THEN IsMarker(cs[i]) ELSE IsTripletElement(cs[i])

\* t1 m1 (t2 m2 (... (tk mk tk+1)))
RECURSIVE RightChainTree(_)
RightChainTree(cs) ==
    IF Len(cs) = 3 THEN Compose(cs[1].sym, Atomic(cs[2]), Atomic(cs[3]))
    ELSE Compose(cs[1].sym, Atomic(cs[2]), RightChainTree(SubSeq(cs, 3, Len(cs))))

\* C20: when the leading element is a marker, the next one a triplet and the
\* one after it not, the result is compose(marker, atomic(element 1),
\* compile(elements 2 .. last)), an exception when an operand fails; hence
\* every right-nested chain [m1, t1, ..., mk, tk, tk+1] compiles to
\* t1 m1 (t2 m2 (... (tk mk tk+1))).
C20_NestedRightOperand ==
    /\ (Compiled /\ Len(criteria) >= 3 /\ IsMarker(criteria[1])
          /\ _is_triplet(criteria[2]) /\ ~_is_triplet(criteria[3])) =>
          result = Compose(criteria[1].sym, Atomic(criteria[2]),
                           _build_where(Commisions,
                                        SubSeq(criteria, 3, Len(criteria))).ret)
    /\ (Compiled /\ IsRightChain(criteria)) => result = RightChainTree(criteria)

C20_Witness ==
    /\ Compiled
    /\ criteria = <<AND, ta, OR, tb, AND, ta, tb>>
    /\ invoked = <<criteria, <<OR, tb, AND, ta, tb>>, <<AND, ta, tb>> >>
    /\ result = <<"and", Atomic(ta),
                  <<"or", Atomic(tb), <<"and", Atomic(ta), Atomic(tb)>> >> >>

\* the number of AND / OR nodes of a predicate
RECURSIVE Compositions(_)
Compositions(pred) ==
    CASE pred[1] \in {"and", "or"} -> 1 + Compositions(pred[2]) + Compositions(pred[3])
      [] pred[1] = "not" -> Compositions(pred[2])
      [] OTHER -> 0

\* C21: a predicate returned for a structure of more than one element has at
\* its root the operator of the element at index 0; the scan decides there and
\* goes no further, and every other marker of the predicate is the leading
\* element of the span of a recursive call, one composition per activation.
C21_RootIsFirstMarker ==
    (Compiled /\ Len(criteria) > 1 /\ IsPredicate(result)) =>
        /\ IsMarker(criteria[1])
        /\ result[1] = (IF criteria[1].sym = "&" THEN "and" ELSE "or")
        /\ Compositions(result) = Len(invoked)
        /\ \A k \in 1..Len(invoked) : IsMarker(invoked[k][1])

C21_Witness ==
    /\ Compiled
    /\ criteria = <<OR, AND, ta, tb, tb>>
    /\ result[1] = "or" /\ result[2][1] = "and"
    /\ invoked = <<criteria, <<AND, ta, tb>> >>

\* C22: _build_where terminates on every input, returning or raising: every
\* recursive activation gets a span two elements shorter than the span of the
\* activation that called it, and every call that runs comes to its end.
C22_Terminates ==
    /\ [](\A k \in 2..Len(callers[1].stack) :
             Len(callers[1].stack[k].sc) = Len(callers[1].stack[k - 1].sc) - 2)
    /\ (callers[1].status = "running") ~> (callers[1].status = "done")

C22_Witness ==
    /\ callers[1].status = "running"
    /\ Len(callers[1].stack) = 2
    /\ callers[1].stack[1].sc = <<AND, OR, ta, tb, ta>>
    /\ callers[1].stack[2].sc = <<OR, ta, tb>>

\* the number of LogicMarkers of a structure
RECURSIVE Markers(_)
Markers(cs) ==
    IF cs = <<>> THEN 0
    ELSE (IF IsMarker(cs[1]) THEN 1 ELSE 0) + Markers(Tail(cs))

\* C23: for every valid structure of more than one element, the deepest
\* nesting of _build_where activations reached while compiling it is the number
\* of LogicMarkers of the structure.
C23_DepthIsMarkerCount ==
    (Compiled /\ WellFormed(criteria) /\ Len(criteria) > 1) =>
        /\ _build_where(Commisions, criteria).depth = Markers(criteria)
        /\ Len(invoked) = Markers(criteria)

\* C24: for valid non-empty structures csA and csB, marker-led or not,
\* compiling and_(csA, csB) gives a predicate that holds of exactly the records
\* of which compile(csA) and compile(csB) both hold, and compiling
\* or_(csA, csB) one that holds where either does.
C24_CombineCompiles ==
    (Combined /\ WellFormed(args.cs_1) /\ WellFormed(args.cs_2)) =>
        LET both == _build_where(Commisions, result[2]).ret
            a == _build_where(Commisions, args.cs_1).ret
            b == _build_where(Commisions, args.cs_2).ret
        IN  /\ IsPredicate(both)
            /\ \A rec \in Records :
                  Holds(both, rec) <=>
                      IF call = "and_" THEN Holds(a, rec) /\ Holds(b, rec)
                      ELSE Holds(a, rec) \/ Holds(b, rec)

\* C25: whatever and_ / or_ produce from single-triplet structures, applied
\* any number of times in any nesting, is empty or a well-formed prefix
\* structure, every marker of which has exactly two operand sub-structures.
C25_HelpersKeepWellFormed ==
    Combined =>
        /\ result[1] = "criteria"
        /\ result[2] = <<>> \/ WellFormed(result[2])
        /\ result[2] = <<>> <=> (args.cs_1 = <<>> /\ args.cs_2 = <<>>)

C25_Witness ==
    /\ pc = "done" /\ call = "and_"
    /\ args.cs_1 = <<OR, ta, tb>> /\ args.cs_2 = <<OR, tb, ta>>
    /\ result[2] = <<AND, OR, ta, tb, OR, tb, ta>>
    /\ WellFormed(result[2])

\* C26: _is_triplet(value) is true if and only if value is a tuple or a list
\* of exactly 3 elements; a tuple or a list of another length, and a marker
\* string, is no triplet.
C26_IsTripletExactlyThree ==
    (pc = "done" /\ call = "_is_triplet") =>
        (result[2] <=> (fragment.type \in {"tuple", "list"} /\ fragment.n = 3))

\* the elements of s other than x, in their order
RECURSIVE Without(_, _)
Without(s, x) ==
    IF s = <<>> THEN <<>>
    ELSE (IF Head(s) = x THEN <<>> ELSE <<Head(s)>>) \o Without(Tail(s), x)

\* C27: for every requested field list (empty, with 'id', without it, with
\* 'id' repeated), _get_table_fields with include_id=True returns a list that
\* begins with the ID field, holds it exactly once, and goes on with the other
\* requested fields in their given order.
C27_IdFirstAndOnce ==
    (pc = "done" /\ call = "_get_table_fields" /\ args.include_id /\ ~IsRaise(result)) =>
        /\ result[2][1] = "id"
        /\ Without(Tail(result[2]), "id") = Tail(result[2])
        /\ args.fields # <<>> => Tail(result[2]) = Without(args.fields, "id")

\* C28: read, search_read and get_values leave the caller's `fields` list as
\* it was passed, same elements in the same order; the shared default list,
\* passed when the caller names no fields, stays empty.
C28_FieldsListUnchanged ==
    (pc = "done" /\ call \in {"read", "search_read", "get_values"}) =>
        fields = args.fields

\* the format that decides: the per-call one when given, else the instance
\* default when given, else the method-level default
DecidingFormat ==
    IF args.output_format # "None" THEN args.output_format
    ELSE IF self._default_output # "None" THEN self._default_output
    ELSE args.default_output

\* C29: _build_output chooses the format by strict precedence, per-call
\* output_format, then the instance default given at construction, then the
\* method-level default; the result is a DataFrame or a list of dicts, one of
\* the two in every case.
C29_OutputPrecedence ==
    (pc = "done" /\ call = "_build_output") =>
        /\ result[1] \in {"DataFrame", "dicts"}
        /\ result[1] = "DataFrame" <=> DecidingFormat = "dataframe"

C29_Witness ==
    /\ pc = "done" /\ call = "_build_output"
    /\ args.output_format = "dict" /\ self._default_output = "dataframe"
    /\ args.default_output = "dataframe"
    /\ result[1] = "dicts"

\* the fields a finished operation used as the record identifier: the column
\* it filtered record ids on, returned the new ids from, put first in the
\* selection, ordered by when no sort column was given, or took the ids from
IdentifierRefs ==
    CASE call = "create" -> {stmt.returning[i] : i \in DOMAIN stmt.returning}
                            \cup {result[2]}
      [] call = "search" -> {stmt.select[1], stmt.order_by[2]}
                            \cup (IF Len(result) = 2 THEN {result[2]} ELSE {"id"})
      [] call = "read" -> {stmt.select[1], invoked[1][1].field}
                          \cup (IF args.sortby = "None" THEN {stmt.order_by[2]} ELSE {})
      [] call \in {"get_value", "get_values"} -> {invoked[1][1].field}
      [] call \in {"update", "delete"} -> {stmt.where[3]}

IdentifierCalls ==
    {"create", "search", "read", "get_value", "get_values", "update", "delete"}

\* C30: create, search, read, get_value, get_values, update and delete go by
\* the field named by unique_identifier_field; on an instance configured with
\* another name than 'id', none of them refers to a field named 'id'.
C30_ConfiguredIdentifier ==
    (pc = "done" /\ call \in IdentifierCalls /\ stmt # NoStmt) =>
        IdentifierRefs = {self._id_name}

====
